---------------------------- MODULE Spec2Model ----------------------------
(***************************************************************************)
(* The login and signup pages of signup-vista: schema validation, the      *)
(* password-strength estimator and the submission workflow of              *)
(* src/pages/Login.tsx (two variants, A: lines 1-280, B: lines 282-551)    *)
(* and src/pages/Signup.tsx.                                               *)
(*                                                                         *)
(* A JavaScript string is a sequence of one-character strings.             *)
(***************************************************************************)
EXTENDS Integers, Sequences, FiniteSets, TLC

(***************************************************************************)
(* Character classes of the regular expressions in the source.             *)
(***************************************************************************)
Lower ==
    {"a","b","c","d","e","f","g","h","i","j","k","l","m",
     "n","o","p","q","r","s","t","u","v","w","x","y","z"}

Upper ==
    {"A","B","C","D","E","F","G","H","I","J","K","L","M",
     "N","O","P","Q","R","S","T","U","V","W","X","Y","Z"}

Digit ==
    {"0","1","2","3","4","5","6","7","8","9"}

Letter == Lower \cup Upper

AlphaNum == Letter \cup Digit

\* \s of a regular expression, and the characters String.prototype.trim removes
Whitespace ==
    {" ", "\t", "\n"}

Rep(c, n) == [i \in 1..n |-> c]

Last(s) == s[Len(s)]

AllIn(s, S) == \A i \in 1..Len(s) : s[i] \in S

SomeIn(s, S) == \E i \in 1..Len(s) : s[i] \in S

\* String.prototype.trim, as zod's .trim() applies it before the later checks
RECURSIVE TrimLeft(_)
TrimLeft(s) ==
    IF s # << >> /\ Head(s) \in Whitespace THEN TrimLeft(Tail(s)) ELSE s

RECURSIVE TrimRight(_)
TrimRight(s) ==
    IF s # << >> /\ Last(s) \in Whitespace
    THEN TrimRight(SubSeq(s, 1, Len(s) - 1))
    ELSE s

Trim(s) == TrimRight(TrimLeft(s))

(***************************************************************************)
(* EMAIL_REGEX of Login variant A:                                         *)
(*   /^(?!\.)(?!.*\.@)[a-zA-Z0-9._%+-]+@[a-zA-Z0-9.-]+\.[a-zA-Z]{2,}$/     *)
(* at is the place of the "@", dot the place of the last "\.".             *)
(***************************************************************************)
EmailLocalChars == AlphaNum \cup {".", "_", "%", "+", "-"}

EmailDomainChars == AlphaNum \cup {".", "-"}

EMAIL_REGEX(s) ==
    /\ ~(s # << >> /\ s[1] = ".")
    /\ ~(\E k \in 1..(Len(s) - 1) : s[k] = "." /\ s[k + 1] = "@")
    /\ \E at \in 1..Len(s) : \E dot \in (at + 1)..Len(s) :
          /\ s[at] = "@"
          /\ s[dot] = "."
          /\ at - 1 >= 1
          /\ AllIn(SubSeq(s, 1, at - 1), EmailLocalChars)
          /\ dot - at - 1 >= 1
          /\ AllIn(SubSeq(s, at + 1, dot - 1), EmailDomainChars)
          /\ Len(s) - dot >= 2
          /\ AllIn(SubSeq(s, dot + 1, Len(s)), Letter)

\* zod's .email() check (Login variant B, Signup), the pattern of zod 3, case
\* insensitive: no leading ".", no ".." anywhere, a local part of letters,
\* digits and _ ' + - . whose last character is not "." or "'", an "@", one or
\* more labels (a letter or digit, then letters, digits or "-", then "."), and
\* a top-level name of two or more letters
ZodLocalChars == AlphaNum \cup {"_", "'", "+", "-", "."}

ZodLocalLast == AlphaNum \cup {"_", "+", "-"}

ZodLabelChars == AlphaNum \cup {"-"}

\* ([A-Z0-9][A-Z0-9\-]*\.)+ : d holds the labels with their closing dots
ZodLabels(d) ==
    /\ d # << >>
    /\ Last(d) = "."
    /\ d[1] \in AlphaNum
    /\ AllIn(d, ZodLabelChars \cup {"."})
    /\ \A k \in 1..(Len(d) - 1) : d[k] = "." => d[k + 1] \in AlphaNum

ZodEmail(s) ==
    /\ ~(s # << >> /\ s[1] = ".")
    /\ ~(\E k \in 1..(Len(s) - 1) : s[k] = "." /\ s[k + 1] = ".")
    /\ \E at \in 1..Len(s) : \E dot \in (at + 1)..Len(s) :
          /\ s[at] = "@"
          /\ s[dot] = "."
          /\ at - 1 >= 1
          /\ AllIn(SubSeq(s, 1, at - 1), ZodLocalChars)
          /\ s[at - 1] \in ZodLocalLast
          /\ ZodLabels(SubSeq(s, at + 1, dot))
          /\ Len(s) - dot >= 2
          /\ AllIn(SubSeq(s, dot + 1, Len(s)), Letter)

(***************************************************************************)
(* Schemas.  A zod string schema runs its checks in the declared order     *)
(* and reports every failed one; Issues lists the messages of the failed   *)
(* checks in that order.                                                   *)
(***************************************************************************)
Check(ok, msg) == [ok |-> ok, msg |-> msg]

Failed(c) == ~c.ok

Issues(checks) ==
    LET bad == SelectSeq(checks, Failed)
    IN  [i \in 1..Len(bad) |-> bad[i].msg]

\* Login.tsx variant A, lines 39-51
loginSchemaA_email(v) ==
    LET s == Trim(v)
    IN  Issues(<< Check(Len(s) >= 1, "Email is required"),
                  Check(EMAIL_REGEX(s), "Please enter a valid email address") >>)

loginSchemaA_password(s) ==
    Issues(<< Check(Len(s) >= 1, "Password is required"),
              Check(Len(s) >= 8, "Password must be at least 8 characters"),
              Check(Len(s) <= 15, "Password must be at most 15 characters") >>)

\* Login.tsx variant B, lines 316-329
loginSchemaB_email(v) ==
    LET s == Trim(v)
    IN  Issues(<< Check(Len(s) >= 1, "Email is required"),
                  Check(ZodEmail(s), "Please enter a valid email address"),
                  Check(Len(s) <= 255, "Email must be less than 255 characters") >>)

loginSchemaB_password(s) ==
    Issues(<< Check(Len(s) >= 1, "Password is required"),
              Check(Len(s) >= 6, "Password must be at least 6 characters"),
              Check(Len(s) <= 100, "Password must be less than 100 characters") >>)

\* Signup.tsx, lines 34-62
signupSchema_fullName(v) ==
    LET s == Trim(v)
    IN  Issues(<< Check(Len(s) >= 1, "Full name is required"),
                  Check(Len(s) >= 2, "Name must be at least 2 characters"),
                  Check(Len(s) <= 100, "Name must be less than 100 characters"),
                  Check(Len(s) >= 1 /\ AllIn(s, Letter \cup Whitespace),
                        "Name can only contain letters and spaces") >>)

signupSchema_email(v) ==
    LET s == Trim(v)
    IN  Issues(<< Check(Len(s) >= 1, "Email is required"),
                  Check(ZodEmail(s), "Please enter a valid email address"),
                  Check(Len(s) <= 255, "Email must be less than 255 characters") >>)

\* the password schema without its last rule, the digit
signupSchema_password_noDigit(s) ==
    Issues(<< Check(Len(s) >= 1, "Password is required"),
              Check(Len(s) >= 8, "Password must be at least 8 characters"),
              Check(Len(s) <= 100, "Password must be less than 100 characters"),
              Check(SomeIn(s, Upper), "Password must contain at least one uppercase letter"),
              Check(SomeIn(s, Lower), "Password must contain at least one lowercase letter") >>)

signupSchema_password(s) ==
    Issues(<< Check(Len(s) >= 1, "Password is required"),
              Check(Len(s) >= 8, "Password must be at least 8 characters"),
              Check(Len(s) <= 100, "Password must be less than 100 characters"),
              Check(SomeIn(s, Upper), "Password must contain at least one uppercase letter"),
              Check(SomeIn(s, Lower), "Password must contain at least one lowercase letter"),
              Check(SomeIn(s, Digit), "Password must contain at least one number") >>)

signupSchema_confirmPassword(s) ==
    Issues(<< Check(Len(s) >= 1, "Please confirm your password") >>)

\* the refinement run only when no field has an issue of its own
signupSchema_refine_whenClean(v) ==
    IF /\ signupSchema_fullName(v.fullName) = << >>
       /\ signupSchema_email(v.email) = << >>
       /\ signupSchema_password(v.password) = << >>
       /\ signupSchema_confirmPassword(v.confirmPassword) = << >>
    THEN Issues(<< Check(v.password = v.confirmPassword, "Passwords don't match") >>)
    ELSE << >>

\* .refine((data) => data.password === data.confirmPassword, ...): the object's
\* fields are strings, so their failed checks leave the parse "dirty", not
\* aborted, and the refinement runs whatever the fields' own issues are
signupSchema_refine(v) ==
    Issues(<< Check(v.password = v.confirmPassword, "Passwords don't match") >>)

(***************************************************************************)
(* zodResolver(schema) under useForm's default criteriaMode ("firstError"):*)
(* the errors object keeps, per field path, the message of the first issue *)
(* zod reported for it; NoError stands for a field with no entry.          *)
(***************************************************************************)
NoError == ""

\* a resolver that lets each later issue of a path replace the earlier one
FirstError_overwritten(issues) ==
    IF issues = << >> THEN NoError ELSE issues[Len(issues)]

FirstError(issues) == IF issues = << >> THEN NoError ELSE issues[1]

loginResolverA(v) ==
    [email      |-> FirstError(loginSchemaA_email(v.email)),
     password   |-> FirstError(loginSchemaA_password(v.password)),
     rememberMe |-> NoError]

loginResolverB(v) ==
    [email      |-> FirstError(loginSchemaB_email(v.email)),
     password   |-> FirstError(loginSchemaB_password(v.password)),
     rememberMe |-> NoError]

\* every issue zod reports at path confirmPassword: the field's own, then the
\* refinement's (the object's fields are parsed before the refinement runs)
signupIssues_confirmPassword(v) ==
    signupSchema_confirmPassword(v.confirmPassword) \o signupSchema_refine(v)

signupResolver(v) ==
    [fullName        |-> FirstError(signupSchema_fullName(v.fullName)),
     email           |-> FirstError(signupSchema_email(v.email)),
     password        |-> FirstError(signupSchema_password(v.password)),
     confirmPassword |-> FirstError(signupIssues_confirmPassword(v))]

IsValid(e) == \A f \in DOMAIN e : e[f] = NoError

(***************************************************************************)
(* getPasswordStrength, Signup.tsx lines 71-89.                            *)
(***************************************************************************)
Point(b) == IF b THEN 1 ELSE 0

\* StrengthScore with its last check inverted: a point when every character
\* is a letter or a digit
StrengthScore_onlyAlnum(password) ==
      Point(Len(password) >= 8)
    + Point(Len(password) >= 12)
    + Point(SomeIn(password, Lower))
    + Point(SomeIn(password, Upper))
    + Point(SomeIn(password, Digit))
    + Point(Len(password) >= 1 /\ AllIn(password, AlphaNum))

\* the local variable strength after the six checks (lines 74-84)
StrengthScore(password) ==
      Point(Len(password) >= 8)
    + Point(Len(password) >= 12)
    + Point(SomeIn(password, Lower))
    + Point(SomeIn(password, Upper))
    + Point(SomeIn(password, Digit))
    + Point(\E i \in 1..Len(password) : password[i] \notin AlphaNum)

\* getPasswordStrength with its thresholds compared by < instead of <=
getPasswordStrength_strict(password) ==
    IF password = << >> THEN "weak"
    ELSE LET strength == StrengthScore(password)
         IN  IF strength < 2 THEN "weak"
             ELSE IF strength < 4 THEN "medium"
             ELSE "strong"

getPasswordStrength(password) ==
    IF password = << >> THEN "weak"
    ELSE LET strength == StrengthScore(password)
         IN  IF strength <= 2 THEN "weak"
             ELSE IF strength <= 4 THEN "medium"
             ELSE "strong"

(***************************************************************************)
(* Bounds of the model.                                                    *)
(***************************************************************************)
\* requests a user makes in one behaviour: runs of onSubmit started plus clicks
\* on a social-authentication button
MaxRequests == 2

(***************************************************************************)
(* The state.                                                              *)
(*   variant, route    which Login variant the application holds, and the  *)
(*                     route shown ("/login", "/signup", or "/")           *)
(*   values .. isDarkMode   the mounted page's component state             *)
(*   succeeded         whether a run of onSubmit of the mounted instance   *)
(*                     has completed without error (the workflow's         *)
(*                     succeeded state, which the pages keep in no flag)   *)
(*   bodyTheme         document.body's data-theme attribute                *)
(*   pending           runs of onSubmit suspended at their await           *)
(*   timers            navigation timers set and not yet fired             *)
(*   localStorage      the browser's local storage                         *)
(*   toasts, navLog, storageWrites   what the pages have issued so far     *)
(*   started, completed     runs of onSubmit started, and how the awaited  *)
(*                     step of each finished one ended                     *)
(*   pw, shown         a password and the rating computed for it (the      *)
(*                     estimator taken alone, SpecStrength)                *)
(***************************************************************************)
VARIABLES variant, route, values, errors, isSubmitted, isLoading, isSuccess,
          passwordStrength, isDarkMode, succeeded, bodyTheme, pending, timers,
          localStorage, toasts, navLog, storageWrites, started, completed,
          pw, shown

comp == <<values, errors, isSubmitted, isLoading, isSuccess, passwordStrength,
          isDarkMode, succeeded>>

issued == <<localStorage, toasts, navLog, storageWrites>>

strengthVars == <<pw, shown>>

vars == <<variant, route, comp, bodyTheme, pending, timers, issued, started,
          completed, strengthVars>>

\* field values a user enters in the model
Str_a_b_co == <<"a", "@", "b", ".", "c", "o">>

Str_Abcdef12 == <<"A", "b", "c", "d", "e", "f", "1", "2">>

Str_Abcdef13 == <<"A", "b", "c", "d", "e", "f", "1", "3">>

Str_abc == <<"a", "b", "c">>

LoginChoices ==
    [email      |-> {<< >>, <<" ">> \o Str_a_b_co},
     password   |-> {<< >>, Rep("a", 8)},
     rememberMe |-> BOOLEAN]

SignupChoices ==
    [fullName        |-> {<< >>, <<"A", "l">>},
     email           |-> {<< >>, Str_a_b_co},
     password        |-> {<< >>, Str_abc, Str_Abcdef12},
     confirmPassword |-> {<< >>, Str_Abcdef12, Str_Abcdef13}]

\* useForm's defaultValues: Login.tsx lines 72-76 and 349-353, Signup.tsx 111-116
LoginDefaults == [email |-> << >>, password |-> << >>, rememberMe |-> FALSE]

SignupDefaults ==
    [fullName |-> << >>, email |-> << >>, password |-> << >>,
     confirmPassword |-> << >>]

Pages == {"/login", "/signup"}

Defaults(r) ==
    IF r = "/login" THEN LoginDefaults
    ELSE IF r = "/signup" THEN SignupDefaults
    ELSE << >>

Choices(r) == IF r = "/login" THEN LoginChoices ELSE SignupChoices

NoErrors(r) == [f \in DOMAIN Defaults(r) |-> NoError]

\* the resolver useForm was given: Login.tsx lines 70 and 348, Signup.tsx 110
Resolver(r, v) ==
    IF r = "/signup" THEN signupResolver(v)
    ELSE IF variant = "A" THEN loginResolverA(v)
    ELSE loginResolverB(v)

PageName(r) == IF r = "/login" THEN "login" ELSE "signup"

\* a run of onSubmit: its page, the rememberMe of its data, and whether the
\* component instance that started it is still the mounted one
Runs == [page : {"login", "signup"}, rememberMe : BOOLEAN, live : BOOLEAN]

\* a navigation timer: the route its callback asks for, and whether the
\* component instance that set it is still the mounted one
Timers == [target : {"/", "/login"}, live : BOOLEAN]

Outcomes == [page : {"login", "signup"}, rememberMe : BOOLEAN, ok : BOOLEAN]

ToastKeys ==
    {[kind |-> "success", title |-> "Login successful! Welcome back."],
     [kind |-> "error",   title |-> "Login failed"],
     [kind |-> "success", title |-> "Account created successfully!"],
     [kind |-> "error",   title |-> "Registration failed"],
     [kind |-> "info",    title |-> "Google login"],
     [kind |-> "info",    title |-> "GitHub login"],
     [kind |-> "info",    title |-> "Google signup"],
     [kind |-> "info",    title |-> "GitHub signup"]}

InfoKeys == {k \in ToastKeys : k.kind = "info"}

NavKeys == [target : {"/", "/login"}, ownerMounted : BOOLEAN]

Toast(kind, title) == [kind |-> kind, title |-> title]

Inc(f, k) == [f EXCEPT ![k] = @ + 1]

Dec(f, k) == [f EXCEPT ![k] = @ - 1]

RECURSIVE SumOver(_, _)
SumOver(f, S) ==
    IF S = {} THEN 0
    ELSE LET k == CHOOSE x \in S : TRUE
         IN  f[k] + SumOver(f, S \ {k})

Total(f) == SumOver(f, DOMAIN f)

\* localStorage.setItem(key, value)
setItem(st, key, value) ==
    [x \in DOMAIN st \cup {key} |-> IF x = key THEN value ELSE st[x]]

\* the runs (timers) of an instance that is unmounted go on without it
Orphan(f) ==
    [k \in DOMAIN f |->
        IF k.live THEN 0 ELSE f[k] + f[[k EXCEPT !.live = TRUE]]]

\* the requests made so far
Requests == started + SumOver(toasts, InfoKeys)

Init ==
    /\ variant \in {"A", "B"}
    /\ route \in Pages
    /\ values = Defaults(route)
    /\ errors = NoErrors(route)
    /\ isSubmitted = FALSE
    /\ isLoading = FALSE
    /\ isSuccess = FALSE
    /\ passwordStrength = "weak"
    /\ isDarkMode = FALSE
    /\ succeeded = FALSE
    /\ bodyTheme = "unset"
    /\ pending = [k \in Runs |-> 0]
    /\ timers = [k \in Timers |-> 0]
    /\ localStorage = [x \in {} |-> ""]
    /\ toasts = [k \in ToastKeys |-> 0]
    /\ navLog = [k \in NavKeys |-> 0]
    /\ storageWrites = << >>
    /\ started = 0
    /\ completed = [k \in Outcomes |-> 0]
    /\ pw = << >>
    /\ shown = "weak"

(***************************************************************************)
(* Mounting and routing.                                                   *)
(***************************************************************************)
\* a fresh instance of the page at route r: the useState initial values
\* (Login.tsx lines 61-63 and 200-201, Signup.tsx lines 97-101) and useForm's
\* defaultValues; "/" shows neither page
MountPage(r) ==
    /\ values' = Defaults(r)
    /\ errors' = NoErrors(r)
    /\ isSubmitted' = FALSE
    /\ isLoading' = FALSE
    /\ isSuccess' = FALSE
    /\ passwordStrength' = "weak"
    /\ isDarkMode' = FALSE
    /\ succeeded' = FALSE

\* the router shows target: the page of another route is unmounted and its
\* pending runs and timers, which nothing cancels, go on as orphans
GoTo(target, runs, tims) ==
    IF target = route
    THEN /\ UNCHANGED <<route, comp>>
         /\ pending' = runs
         /\ timers' = tims
    ELSE /\ route' = target
         /\ MountPage(target)
         /\ pending' = Orphan(runs)
         /\ timers' = Orphan(tims)

\* the form is on screen: Signup renders the success view instead of the form
\* once isSuccess is set (Signup.tsx lines 177-193)
FormRendered == route \in Pages /\ ~(route = "/signup" /\ isSuccess)

\* disabled={isLoading} on the inputs, the checkbox, the submit button and the
\* social buttons
ControlsEnabled == ~isLoading

(***************************************************************************)
(* A field changes (the Controller's onChange).                            *)
(***************************************************************************)
\* Signup.tsx lines 125-129: the effect on watchPassword
passwordStrengthEffect(watchPassword, current) ==
    IF watchPassword # << >> THEN getPasswordStrength(watchPassword)
    ELSE current

\* after the first submit react-hook-form validates again on every change
\* (reValidateMode "onChange") and updates the changed field's error only
FieldChange(f, v) ==
    /\ FormRendered
    /\ ControlsEnabled
    /\ f \in DOMAIN Choices(route)
    /\ v \in Choices(route)[f]
    /\ v # values[f]
    /\ values' = [values EXCEPT ![f] = v]
    /\ errors' = IF isSubmitted
                 THEN [errors EXCEPT ![f] = Resolver(route, values')[f]]
                 ELSE errors
    /\ passwordStrength' =
          IF route = "/signup" /\ f = "password"
          THEN passwordStrengthEffect(v, passwordStrength)
          ELSE passwordStrength
    /\ UNCHANGED <<variant, route, isSubmitted, isLoading, isSuccess,
                   isDarkMode, succeeded, bodyTheme, pending, timers, issued, started,
                   completed, strengthVars>>

(***************************************************************************)
(* Submit: handleSubmit(onSubmit) validates, and on success runs onSubmit  *)
(* up to its await.                                                        *)
(***************************************************************************)
\* a submit button that is never disabled
SubmitEnabled_always == TRUE

\* the submit button: type="submit" disabled={isLoading}
SubmitEnabled == ControlsEnabled

\* onSubmit bound to the form directly, without handleSubmit
handleSubmit_proceeds_always(e) == TRUE

\* handleSubmit(onSubmit) calls onSubmit only when the resolver returned no
\* error (Login.tsx lines 153 and 418, Signup.tsx line 208)
handleSubmit_proceeds(e) == IsValid(e)

\* the data onSubmit reads after its await
SubmitData(r, v) ==
    [page |-> PageName(r),
     rememberMe |-> IF r = "/login" THEN v.rememberMe ELSE FALSE,
     live |-> TRUE]

FormSubmit ==
    /\ FormRendered
    /\ SubmitEnabled
    /\ LET e == Resolver(route, values)
       IN  /\ errors' = e
           /\ isSubmitted' = TRUE
           /\ IF handleSubmit_proceeds(e)
              THEN \* onSubmit: setIsLoading(true), then the await
                   /\ Requests < MaxRequests
                   /\ started' = started + 1
                   /\ isLoading' = TRUE
                   /\ pending' = Inc(pending, SubmitData(route, values))
              ELSE UNCHANGED <<started, isLoading, pending>>
    /\ UNCHANGED <<variant, route, values, isSuccess, passwordStrength,
                   isDarkMode, succeeded, bodyTheme, timers, issued, completed,
                   strengthVars>>

(***************************************************************************)
(* The rest of onSubmit, after its await.  The awaited step is a timer     *)
(* today and stands for the authentication call ("replace with actual      *)
(* authentication logic"): it resolves (ok) or is rejected (~ok).  Each    *)
(* operator lists the calls the run then makes, in their order per kind.   *)
(***************************************************************************)
NoCalls ==
    [setItem |-> << >>, toast |-> << >>, setTimeout |-> << >>,
     setIsLoading |-> << >>, setIsSuccess |-> << >>]

\* Login's onSubmit storing the preference whatever data.rememberMe is
Login_onSubmit_afterAwait_alwaysStores(data, ok) ==
    IF ok
    THEN [NoCalls EXCEPT
            !.setItem = << <<"rememberMe", "true">> >>,
            !.toast = << Toast("success", "Login successful! Welcome back.") >>,
            !.setTimeout = << "/" >>,
            !.setIsLoading = << FALSE >>]
    ELSE [NoCalls EXCEPT
            !.toast = << Toast("error", "Login failed") >>,
            !.setIsLoading = << FALSE >>]

\* Login's onSubmit storing the checkbox's state as it is, checked or not
Login_onSubmit_afterAwait_storesChoice(data, ok) ==
    IF ok
    THEN [NoCalls EXCEPT
            !.setItem = << <<"rememberMe",
                             IF data.rememberMe THEN "true" ELSE "false">> >>,
            !.toast = << Toast("success", "Login successful! Welcome back.") >>,
            !.setTimeout = << "/" >>,
            !.setIsLoading = << FALSE >>]
    ELSE [NoCalls EXCEPT
            !.toast = << Toast("error", "Login failed") >>,
            !.setIsLoading = << FALSE >>]

\* Login.tsx lines 98-122 (variant A) and 367-391 (variant B)
Login_onSubmit_afterAwait(data, ok) ==
    IF ok
    THEN [NoCalls EXCEPT
            !.setItem = IF data.rememberMe
                        THEN << <<"rememberMe", "true">> >>
                        ELSE << >>,
            !.toast = << Toast("success", "Login successful! Welcome back.") >>,
            !.setTimeout = << "/" >>,
            !.setIsLoading = << FALSE >>]
    ELSE [NoCalls EXCEPT
            !.toast = << Toast("error", "Login failed") >>,
            !.setIsLoading = << FALSE >>]

\* Signup's onSubmit with a catch block that leaves the loading flag set
Signup_onSubmit_afterAwait_noReset(data, ok) ==
    IF ok
    THEN [NoCalls EXCEPT
            !.setIsSuccess = << TRUE >>,
            !.toast = << Toast("success", "Account created successfully!") >>,
            !.setTimeout = << "/login" >>]
    ELSE [NoCalls EXCEPT
            !.toast = << Toast("error", "Registration failed") >>]

\* Signup's onSubmit sending the user home, as Login's does
Signup_onSubmit_afterAwait_toHome(data, ok) ==
    IF ok
    THEN [NoCalls EXCEPT
            !.setIsSuccess = << TRUE >>,
            !.toast = << Toast("success", "Account created successfully!") >>,
            !.setTimeout = << "/" >>]
    ELSE [NoCalls EXCEPT
            !.toast = << Toast("error", "Registration failed") >>,
            !.setIsLoading = << FALSE >>]

\* Signup.tsx lines 143-163
Signup_onSubmit_afterAwait(data, ok) ==
    IF ok
    THEN [NoCalls EXCEPT
            !.setIsSuccess = << TRUE >>,
            !.toast = << Toast("success", "Account created successfully!") >>,
            !.setTimeout = << "/login" >>]
    ELSE [NoCalls EXCEPT
            !.toast = << Toast("error", "Registration failed") >>,
            !.setIsLoading = << FALSE >>]

RECURSIVE IncEach(_, _)
IncEach(f, keys) ==
    IF keys = << >> THEN f ELSE IncEach(Inc(f, Head(keys)), Tail(keys))

RECURSIVE SetEach(_, _)
SetEach(st, items) ==
    IF items = << >> THEN st
    ELSE SetEach(setItem(st, Head(items)[1], Head(items)[2]), Tail(items))

\* a state setter of an unmounted instance changes nothing on screen
SetState(live, current, calls) ==
    IF live /\ calls # << >> THEN Last(calls) ELSE current

TimersOf(targets, live) ==
    [i \in 1..Len(targets) |-> [target |-> targets[i], live |-> live]]

AwaitSettles(k, ok) ==
    /\ pending[k] > 0
    /\ LET fx == IF k.page = "login"
                 THEN Login_onSubmit_afterAwait(k, ok)
                 ELSE Signup_onSubmit_afterAwait(k, ok)
       IN  /\ pending' = Dec(pending, k)
           /\ completed' = Inc(completed, [page |-> k.page,
                                           rememberMe |-> k.rememberMe,
                                           ok |-> ok])
           /\ localStorage' = SetEach(localStorage, fx.setItem)
           /\ storageWrites' = storageWrites \o fx.setItem
           /\ toasts' = IncEach(toasts, fx.toast)
           /\ timers' = IncEach(timers, TimersOf(fx.setTimeout, k.live))
           /\ isLoading' = SetState(k.live, isLoading, fx.setIsLoading)
           /\ isSuccess' = SetState(k.live, isSuccess, fx.setIsSuccess)
           /\ succeeded' = (succeeded \/ (k.live /\ ok))
    /\ UNCHANGED <<variant, route, values, errors, isSubmitted,
                   passwordStrength, isDarkMode, bodyTheme, navLog, started,
                   strengthVars>>

(***************************************************************************)
(* A navigation timer fires: () => navigate(target).  The callback holds   *)
(* the router's navigate, which works whether or not the page that set the *)
(* timer is still mounted.                                                 *)
(***************************************************************************)
NavigationTimer(t) ==
    /\ timers[t] > 0
    /\ navLog' = Inc(navLog, [target |-> t.target, ownerMounted |-> t.live])
    /\ GoTo(t.target, pending, Dec(timers, t))
    /\ UNCHANGED <<variant, bodyTheme, localStorage, toasts, storageWrites,
                   started, completed, strengthVars>>

\* the footer's <Link>: Login.tsx lines 272 and 543, Signup.tsx line 376
LinkTarget(r) == IF r = "/login" THEN "/signup" ELSE "/login"

FollowLink ==
    /\ FormRendered
    /\ GoTo(LinkTarget(route), pending, timers)
    /\ UNCHANGED <<variant, bodyTheme, issued, started, completed,
                   strengthVars>>

(***************************************************************************)
(* The social buttons and the theme toggle.                                *)
(***************************************************************************)
\* the buttons rendered: Login.tsx lines 258-266 (A), 383-399 (B), Signup.tsx
\* lines 354-371
Providers(r) ==
    IF r = "/login" /\ variant = "A" THEN {"Google"} ELSE {"Google", "GitHub"}

\* Signup's handler announcing the provider with Login's wording
handleSocial_loginWording(r, provider) ==
    Toast("info", provider \o " login")

\* handleSocialLogin (Login.tsx lines 130-134, 399-403) and handleSocialSignup
\* (Signup.tsx lines 171-175)
handleSocial(r, provider) ==
    Toast("info", IF r = "/login" THEN provider \o " login"
                  ELSE provider \o " signup")

SocialClick(provider) ==
    /\ FormRendered
    /\ ControlsEnabled
    /\ provider \in Providers(route)
    /\ Requests < MaxRequests
    /\ toasts' = Inc(toasts, handleSocial(route, provider))
    /\ UNCHANGED <<variant, route, comp, bodyTheme, pending, timers,
                   localStorage, navLog, storageWrites, started, completed,
                   strengthVars>>

\* toggleTheme, Login.tsx lines 82-85 (variant A only)
toggleTheme ==
    /\ route = "/login"
    /\ variant = "A"
    /\ isDarkMode' = ~isDarkMode
    /\ bodyTheme' = IF ~isDarkMode THEN "dark" ELSE "light"
    /\ UNCHANGED <<variant, route, values, errors, isSubmitted, isLoading,
                   isSuccess, passwordStrength, succeeded, pending, timers, issued,
                   started, completed, strengthVars>>

Next ==
    \/ \E f \in DOMAIN Choices(route) : \E v \in Choices(route)[f] :
          FieldChange(f, v)
    \/ FormSubmit
    \/ \E k \in Runs : \E ok \in BOOLEAN : AwaitSettles(k, ok)
    \/ \E t \in Timers : NavigationTimer(t)
    \/ FollowLink
    \/ \E provider \in {"Google", "GitHub"} : SocialClick(provider)
    \/ toggleTheme

Spec == Init /\ [][Next]_vars

(***************************************************************************)
(* Claims about the pages (Spec).                                          *)
(***************************************************************************)
LiveRuns == {k \in Runs : k.live}

\* runs in flight that the mounted instance started
LiveInFlight == SumOver(pending, LiveRuns)

\* runs in flight that instances of the page started, mounted or not
InFlight(page) == SumOver(pending, {k \in Runs : k.page = page})

\* a step in which handleSubmit ran and changed something
SubmitStep ==
    /\ route \in Pages
    /\ route' = route
    /\ values' = values
    /\ isSubmitted'
    /\ <<errors, isSubmitted, started>>' # <<errors, isSubmitted, started>>

\* C1 as stated: on each page at most one submission is in flight at any time.
C1_OneInFlightPerPage ==
    \A page \in {"login", "signup"} : InFlight(page) <= 1

\* C1 as amended: a mounted page instance has at most one run of its onSubmit
\* in flight, and from the start of the run until its step settles the
\* loading flag is set, which disables the submit button; the runs in flight
\* belong to the page shown.
C1_OneInFlightPerInstance ==
    /\ LiveInFlight <= 1
    /\ LiveInFlight = 1 => isLoading /\ ~(FormRendered /\ SubmitEnabled)
    /\ \A k \in LiveRuns : pending[k] > 0 => k.page = PageName(route)

\* a run of the mounted instance is in flight while a run of an instance
\* unmounted since is still in flight too
C1_Witness ==
    /\ LiveInFlight = 1
    /\ isLoading
    /\ \E k \in Runs \ LiveRuns : pending[k] > 0

\* C2: a navigation timer that fires after its page was torn down requests no
\* navigation.
C2_NoNavigationAfterTeardown ==
    \A k \in NavKeys : ~k.ownerMounted => navLog[k] = 0

\* C3: once a submission of the mounted page has succeeded, the page is
\* neither idle (its form on screen with the controls enabled) nor submitting
\* again.
C3_SucceededIsTerminal ==
    succeeded => /\ ~(FormRendered /\ ControlsEnabled)
                 /\ LiveInFlight = 0

\* C4: a submit whose values violate the schema never enters submitting: the
\* loading flag stays false, no run of onSubmit starts, and no notification,
\* storage write or timer is produced; a run starts only from an idle form
\* whose values pass the schema.
C4_ValidationGatesSubmission ==
    [][/\ (SubmitStep /\ ~IsValid(Resolver(route, values))) =>
              /\ ~isLoading'
              /\ errors' = Resolver(route, values)
              /\ UNCHANGED <<started, pending, timers, issued, completed,
                             isLoading, isSuccess>>
       /\ started' # started =>
              /\ IsValid(Resolver(route, values))
              /\ ~isLoading
              /\ isLoading'
              /\ started' = started + 1]_vars

\* a submit was refused: the errors of the values are on screen and nothing
\* has been started or issued
C4_Witness ==
    /\ route \in Pages
    /\ isSubmitted
    /\ errors = Resolver(route, values)
    /\ ~IsValid(errors)
    /\ ~isLoading
    /\ started = 0
    /\ Total(toasts) = 0

MismatchStep ==
    /\ SubmitStep
    /\ route = "/signup"
    /\ values.password # values.confirmPassword

\* C5 as stated: a signup submit whose password differs from confirmPassword
\* shows "Passwords don't match" on confirmPassword, and not on password.
C5_MismatchOnConfirm ==
    [][MismatchStep =>
          /\ errors'.confirmPassword = "Passwords don't match"
          /\ errors'.password # "Passwords don't match"]_vars

\* C5 as amended: such a submit is refused with an error on confirmPassword and
\* never "Passwords don't match" on password; zod reports the mismatch at
\* path confirmPassword whatever the other fields' issues, and it is the
\* message shown unless confirmPassword is empty, whose own "Please confirm
\* your password" comes first.
C5_MismatchOnConfirmUnlessEmpty ==
    [][MismatchStep =>
          /\ errors'.confirmPassword =
                IF values.confirmPassword = << >>
                THEN "Please confirm your password"
                ELSE "Passwords don't match"
          /\ errors'.password # "Passwords don't match"
          /\ \E i \in DOMAIN signupIssues_confirmPassword(values) :
                signupIssues_confirmPassword(values)[i] = "Passwords don't match"
          /\ started' = started]_vars

\* a mismatch was reported on confirmPassword while password failed its own
\* checks
C5_Witness ==
    /\ route = "/signup"
    /\ isSubmitted
    /\ errors = signupResolver(values)
    /\ values.password # values.confirmPassword
    /\ errors.confirmPassword = "Passwords don't match"
    /\ errors.password # NoError

\* C6: on Signup the stored passwordStrength is getPasswordStrength of the
\* current password, weak when the password is empty.
C6_StrengthTracksPassword ==
    route = "/signup" => passwordStrength = getPasswordStrength(values.password)

ErrorToast(page) ==
    IF page = "login" THEN Toast("error", "Login failed")
    ELSE Toast("error", "Registration failed")

\* the run k settled with outcome ok in this step
Settled(k, ok) ==
    /\ pending'[k] = pending[k] - 1
    /\ completed' = Inc(completed, [page |-> k.page,
                                    rememberMe |-> k.rememberMe, ok |-> ok])

\* C9: when the awaited step of a run fails, exactly one failure notification
\* of its page is issued and nothing else: no storage write, no success
\* notification, no success view, no timer; the loading flag of the run's
\* instance is cleared and its form is idle again.
C9_FailureHandled ==
    [][\A k \in Runs :
          Settled(k, FALSE) =>
              /\ toasts' = Inc(toasts, ErrorToast(k.page))
              /\ UNCHANGED <<localStorage, storageWrites, timers, navLog,
                             isSuccess, succeeded, route, values>>
              /\ k.live => /\ ~isLoading'
                           /\ ~isSuccess'
                           /\ FormRendered'
                           /\ SubmitEnabled']_vars

\* a signup run failed and the form is idle with one failure notification
C9_Witness ==
    /\ route = "/signup"
    /\ completed[[page |-> "signup", rememberMe |-> FALSE, ok |-> FALSE]] = 1
    /\ toasts[Toast("error", "Registration failed")] = 1
    /\ started = 1
    /\ LiveInFlight = 0
    /\ ~isLoading
    /\ FormRendered

\* C10: local storage changes only by the write of rememberMe = "true" that a
\* login run makes when its data has rememberMe set and its step resolved;
\* every other step leaves it alone.
C10_RememberMeWrittenOnlyOnOptInSuccess ==
    [][<<localStorage, storageWrites>>' # <<localStorage, storageWrites>> =>
          /\ \E k \in Runs :
                /\ k.page = "login"
                /\ k.rememberMe
                /\ Settled(k, TRUE)
          /\ storageWrites' = Append(storageWrites, <<"rememberMe", "true">>)
          /\ localStorage' = setItem(localStorage, "rememberMe", "true")
          /\ DOMAIN localStorage' = {"rememberMe"}]_vars

\* the flag was written, and runs that failed or had rememberMe unset, a
\* refused submit and a signup run wrote nothing
C10_Witness ==
    /\ Len(storageWrites) = 1
    /\ "rememberMe" \in DOMAIN localStorage
    /\ localStorage["rememberMe"] = "true"
    /\ completed[[page |-> "login", rememberMe |-> TRUE, ok |-> TRUE]] = 1
    /\ started = 2

\* a step in which an informational notification was issued
SocialStep == SumOver(toasts', InfoKeys) # SumOver(toasts, InfoKeys)

\* the notification the page's social handler issues for a provider
SocialNotice(r, provider) ==
    IF r = "/login"
    THEN [kind |-> "info", title |-> provider \o " login"]
    ELSE [kind |-> "info", title |-> provider \o " signup"]

\* C13: the social trigger only issues one informational notification that
\* names the provider of a button the page renders; the field values, the
\* validation errors, the loading flag, the success flag, the password
\* strength, local storage and the pending navigation timers (and the route,
\* the runs in flight and the navigation log) stay as they were, and the
\* trigger never acts while the loading flag is set.
C13_SocialOnlyNotifies ==
    [][SocialStep =>
          /\ ~isLoading
          /\ \E provider \in Providers(route) :
                toasts' = Inc(toasts, SocialNotice(route, provider))
          /\ UNCHANGED <<values, errors, isSubmitted, isLoading, isSuccess,
                         passwordStrength, localStorage, storageWrites,
                         timers, pending, route, navLog, started,
                         completed>>]_vars

\* "GitHub signup" was announced on Signup while a navigation timer set by an
\* earlier login was pending and the preference was stored
C13_Witness ==
    /\ route = "/signup"
    /\ toasts[[kind |-> "info", title |-> "GitHub signup"]] = 1
    /\ SumOver(toasts, InfoKeys) = 1
    /\ \E t \in Timers : timers[t] > 0
    /\ "rememberMe" \in DOMAIN localStorage

\* C15: once rememberMe is in local storage it stays there with the value
\* "true": no step removes the key or stores another value under it, be it
\* a later login that succeeds with rememberMe unchecked, a login that
\* fails, or anything done on Signup.
C15_RememberMeNeverLost ==
    [][("rememberMe" \in DOMAIN localStorage) =>
          /\ localStorage["rememberMe"] = "true"
          /\ "rememberMe" \in DOMAIN localStorage'
          /\ localStorage'["rememberMe"] = "true"]_vars

\* one instance of Login logged in twice, once with rememberMe checked and
\* once unchecked, and the stored value is "true"
C15_Witness ==
    /\ route = "/login"
    /\ completed[[page |-> "login", rememberMe |-> TRUE, ok |-> TRUE]] = 1
    /\ completed[[page |-> "login", rememberMe |-> FALSE, ok |-> TRUE]] = 1
    /\ timers[[target |-> "/", live |-> TRUE]] = 2
    /\ "rememberMe" \in DOMAIN localStorage
    /\ localStorage["rememberMe"] = "true"

(***************************************************************************)
(* The pages with their timers served: a timer set with setTimeout is      *)
(* fired by the event loop once its delay has passed, whether or not the   *)
(* page that set it is still mounted.  Nothing is assumed of the awaited   *)
(* step, which stands for a call that may never answer.                    *)
(***************************************************************************)
SpecLive == Spec /\ \A t \in Timers : WF_vars(NavigationTimer(t))

SuccessToast(page) ==
    IF page = "login" THEN Toast("success", "Login successful! Welcome back.")
    ELSE Toast("success", "Account created successfully!")

\* where a page's run asks to go once it has succeeded
Destination(page) == IF page = "login" THEN "/" ELSE "/login"

\* runs of the page whose awaited step resolved
Resolved(page) == SumOver(completed, {o \in Outcomes : o.page = page /\ o.ok})

\* navigations to target requested so far
Requested(target) == SumOver(navLog, {n \in NavKeys : n.target = target})

\* navigations to target scheduled and not yet requested
Scheduled(target) == SumOver(timers, {t \in Timers : t.target = target})

SuccessViewShown == route = "/signup" /\ isSuccess

\* the order of the steps of a submission that passed validation; the
\* success view is required of every Signup run (anyRun) or of the runs
\* whose instance is still mounted when the step resolves
WorkflowOrder(anyRun) ==
    /\ started' # started =>
          /\ isLoading'
          /\ pending' = Inc(pending, SubmitData(route, values))
          /\ UNCHANGED <<toasts, timers, navLog>>
    /\ \A k \in Runs :
          Settled(k, TRUE) =>
              /\ k.live => isLoading
              /\ toasts' = Inc(toasts, SuccessToast(k.page))
              /\ timers' = Inc(timers, [target |-> Destination(k.page),
                                        live |-> k.live])
              /\ navLog' = navLog
              /\ (k.page = "signup" /\ (anyRun \/ k.live)) => SuccessViewShown'
    /\ navLog' # navLog =>
          \E t \in Timers :
              /\ timers[t] > 0
              /\ navLog' = Inc(navLog, [target |-> t.target,
                                        ownerMounted |-> t.live])
              /\ route' = t.target
              /\ toasts' = toasts
              /\ (t.live /\ t.target = "/login") => SuccessViewShown

\* every navigation a resolved run scheduled is to its page's destination
\* and is either pending or requested
ScheduledOrRequested ==
    \A page \in {"login", "signup"} :
        Resolved(page) =
            Scheduled(Destination(page)) + Requested(Destination(page))

\* the n-th run of a page to resolve is followed by the n-th navigation to
\* the page's destination
EventuallyRequested ==
    \A page \in {"login", "signup"} : \A n \in 1..MaxRequests :
        (Resolved(page) >= n) ~> (Requested(Destination(page)) >= n)

C14_SubmittingNotWeak ==
    [][(started' # started /\ route = "/signup") =>
          /\ StrengthScore(values.password) >= 4
          /\ passwordStrength # "weak"
          /\ isLoading']_vars

(***************************************************************************)
(* The estimator taken alone: a password is typed, pasted and cleared, and *)
(* shown is the rating getPasswordStrength gives it.                       *)
(***************************************************************************)
\* characters typed one at a time
MaxTyped == 3

\* length of a pasted run of one character
MaxRun == 9

\* one character of each class, and a space
Alphabet == {"a", "Z", "7", "!", " "}

StrengthInit ==
    /\ Init
    /\ variant = "A"
    /\ route = "/signup"

StrengthFrame ==
    UNCHANGED <<variant, route, comp, bodyTheme, pending, timers, issued,
                started, completed>>

TypeChar(c) ==
    /\ Len(pw) < MaxTyped
    /\ pw' = Append(pw, c)
    /\ shown' = getPasswordStrength(pw')
    /\ StrengthFrame

PasteRun(c, n) ==
    /\ Len(pw) <= MaxTyped
    /\ pw' = pw \o Rep(c, n)
    /\ shown' = getPasswordStrength(pw')
    /\ StrengthFrame

ClearPassword ==
    /\ pw # << >>
    /\ pw' = << >>
    /\ shown' = getPasswordStrength(pw')
    /\ StrengthFrame

StrengthNext ==
    \/ \E c \in Alphabet : TypeChar(c)
    \/ \E c \in Alphabet : \E n \in 1..MaxRun : PasteRun(c, n)
    \/ ClearPassword

SpecStrength == StrengthInit /\ [][StrengthNext]_vars

(***************************************************************************)
(* Claims about the estimator (SpecStrength).                              *)
(***************************************************************************)
Range(s) == {s[i] : i \in 1..Len(s)}

Rank(rating) ==
    CASE rating = "weak" -> 1
      [] rating = "medium" -> 2
      [] rating = "strong" -> 3

\* the reference scoring: the criteria a password meets, counted
RefCriteria(p) ==
    {c \in {"length>=8", "length>=12", "lowercase", "uppercase", "digit",
            "non-alphanumeric"} :
        CASE c = "length>=8" -> Len(p) >= 8
          [] c = "length>=12" -> Len(p) >= 12
          [] c = "lowercase" -> Range(p) \cap Lower # {}
          [] c = "uppercase" -> Range(p) \cap Upper # {}
          [] c = "digit" -> Range(p) \cap Digit # {}
          [] c = "non-alphanumeric" -> Range(p) \ AlphaNum # {}}

RefRating(p) ==
    LET n == Cardinality(RefCriteria(p))
    IN  CASE n <= 2 -> "weak"
          [] n \in {3, 4} -> "medium"
          [] n >= 5 -> "strong"

\* C7: for every password, getPasswordStrength returns the rating of the
\* reference scoring (one point per criterion met, <= 2 weak, 3 or 4 medium,
\* >= 5 strong); the result is one of the three ratings, and the empty
\* password is rated weak.
C7_StrengthMatchesReference ==
    /\ shown = RefRating(pw)
    /\ shown \in {"weak", "medium", "strong"}
    /\ (pw = << >> => shown = "weak")
    /\ getPasswordStrength(<< >>) = "weak"

\* a twelve-character password of four classes has been rated strong
C7_Witness ==
    /\ Len(pw) >= 12
    /\ Cardinality(RefCriteria(pw)) = 6
    /\ shown = "strong"

ClassOf(c) ==
    CASE c \in Lower -> "lowercase"
      [] c \in Upper -> "uppercase"
      [] c \in Digit -> "digit"
      [] OTHER -> "non-alphanumeric"

Lacks(p, c) == \A i \in 1..Len(p) : ClassOf(p[i]) # ClassOf(c)

\* C8: appending a character of a class the password lacks never lowers the
\* score, and so never lowers the rating (weak < medium < strong).
C8_StrengthMonotone ==
    \A c \in Alphabet :
        Lacks(pw, c) =>
            /\ StrengthScore(Append(pw, c)) >= StrengthScore(pw)
            /\ Rank(getPasswordStrength(Append(pw, c))) >= Rank(shown)

\* a password rated medium lacks a class whose character makes it strong
C8_Witness ==
    /\ shown = "medium"
    /\ \E c \in Alphabet :
          /\ Lacks(pw, c)
          /\ StrengthScore(Append(pw, c)) > StrengthScore(pw)
          /\ getPasswordStrength(Append(pw, c)) = "strong"

\* C14: a password the signup schema accepts (8 to 100 characters with an
\* uppercase letter, a lowercase letter and a digit) scores at least 4 in
\* getPasswordStrength, so its rating, computed or shown, is never "weak".
C14_AcceptedPasswordScoresFour ==
    signupSchema_password(pw) = << >> =>
        /\ StrengthScore(pw) >= 4
        /\ getPasswordStrength(pw) # "weak"
        /\ shown # "weak"

\* an accepted password of the least length and the least score the schema
\* allows; one character fewer and the schema refuses it
C14_Witness ==
    /\ signupSchema_password(pw) = << >>
    /\ Len(pw) = 8
    /\ StrengthScore(pw) = 4
    /\ shown = "medium"
    /\ signupSchema_password(SubSeq(pw, 1, 7)) # << >>

(***************************************************************************)
(* Validation taken alone: the fields hold what a user typed before the    *)
(* first submit, and the form is submitted once.                           *)
(***************************************************************************)
\* length of the e-mail addresses typed character by character
MaxEmailLen == 6

\* length of the names typed character by character
MaxNameLen == 3

\* length of the class prefix of the signup passwords typed
MaxPrefixLen == 3

\* length of the login passwords typed (both variants' lower limits and
\* variant A's upper limit lie within it)
MaxPasswordLen == 16

\* the strings over A of length at most n
Strings(A, n) == UNION {[1..k -> A] : k \in 0..n}

\* a letter and the two separators of an address
EmailAlphabet == {"a", "@", "."}

\* addresses with spaces, addresses the two patterns disagree on and longer
\* ones: spaces alone, around a letter and around an address, a leading ".",
\* a "." before the "@", "..", a label beginning with "-", a "%", and 255
\* and 256 characters
EmailSamples ==
    {<<" ">>,
     <<" ", "\t">>,
     <<" ", "a">>,
     <<"a", " ">>,
     <<"a", " ", "@", "b", ".", "c", "o">>,
     <<" ">> \o Str_a_b_co \o <<" ">>,
     <<".">> \o Str_a_b_co,
     <<"a", ".", "@", "b", ".", "c", "o">>,
     <<"a", "@", "b", ".", ".", "c", "o">>,
     <<"a", "@", "-", "b", ".", "c", "o">>,
     <<"a", "%", "@", "b", ".", "c", "o">>,
     Rep("a", 249) \o Str_a_b_co,
     Rep("a", 250) \o Str_a_b_co}

EmailInputs == Strings(EmailAlphabet, MaxEmailLen) \cup EmailSamples

\* e-mail values paired with every value of the other fields
EmailFew == {<< >>, <<" ">>, <<"a">>, Str_a_b_co}

\* a letter, a space and a digit; and names of 100 and 101 characters
NameInputs ==
    Strings({"a", " ", "1"}, MaxNameLen) \cup {Rep("a", 100), Rep("a", 101)}

NameFew == {<< >>, <<"A", "l">>}

\* login passwords by length, up to MaxPasswordLen and at variant B's limit
LoginPasswordInputs ==
    {Rep("a", n) : n \in 0..MaxPasswordLen} \cup {Rep("a", 100), Rep("a", 101)}

\* signup passwords: a prefix of lowercase letters, uppercase letters and
\* digits, alone and filled with "a" to 7 and 8 characters; and passwords of
\* 100 and 101 characters
SignupPasswordInputs ==
    UNION {{p \o Rep("a", n - Len(p)) : n \in {Len(p), 7, 8}} :
              p \in Strings({"a", "Z", "7"}, MaxPrefixLen)}
    \cup {<<"Z", "7">> \o Rep("a", 98), <<"Z", "7">> \o Rep("a", 99)}

LoginInputs ==
    [email : EmailInputs, password : {Rep("a", 8)}, rememberMe : {FALSE}]
    \cup [email : EmailFew, password : LoginPasswordInputs,
          rememberMe : BOOLEAN]

\* the confirmation is empty, equal to the password, or one character longer
SignupInputs ==
    {[fullName |-> n, email |-> e, password |-> p, confirmPassword |-> c] :
        n \in NameInputs, e \in {Str_a_b_co}, p \in {Str_Abcdef12},
        c \in {Str_Abcdef12}}
    \cup {[fullName |-> n, email |-> e, password |-> p, confirmPassword |-> c] :
        n \in {<<"A", "l">>}, e \in EmailInputs, p \in {Str_Abcdef12},
        c \in {Str_Abcdef12}}
    \cup UNION {{[fullName |-> n, email |-> e, password |-> p,
                  confirmPassword |-> c] :
                    n \in NameFew, e \in {<< >>, Str_a_b_co},
                    c \in {<< >>, p, Append(p, "x")}} :
                        p \in SignupPasswordInputs}

Inputs(r) == IF r = "/login" THEN LoginInputs ELSE SignupInputs

\* a freshly mounted page whose fields were filled in; before the first
\* submit a change validates nothing, and Signup's effect has rated the
\* password
ValidateInit ==
    /\ variant \in {"A", "B"}
    /\ route \in Pages
    /\ route = "/signup" => variant = "A"
    /\ values \in Inputs(route)
    /\ errors = NoErrors(route)
    /\ isSubmitted = FALSE
    /\ isLoading = FALSE
    /\ isSuccess = FALSE
    /\ passwordStrength =
          IF route = "/signup"
          THEN passwordStrengthEffect(values.password, "weak")
          ELSE "weak"
    /\ isDarkMode = FALSE
    /\ succeeded = FALSE
    /\ bodyTheme = "unset"
    /\ pending = [k \in Runs |-> 0]
    /\ timers = [k \in Timers |-> 0]
    /\ localStorage = [x \in {} |-> ""]
    /\ toasts = [k \in ToastKeys |-> 0]
    /\ navLog = [k \in NavKeys |-> 0]
    /\ storageWrites = << >>
    /\ started = 0
    /\ completed = [k \in Outcomes |-> 0]
    /\ pw = << >>
    /\ shown = "weak"

ValidateNext == FormSubmit

SpecValidate == ValidateInit /\ [][ValidateNext]_vars

(***************************************************************************)
(* Claims about validation (SpecValidate).                                 *)
(***************************************************************************)
\* a constraint as declared: whether the value meets it, and its message
Rule(holds, message) == <<holds, message>>

\* the constraints of field f in the order the page's schema declares them,
\* evaluated on the values v; the e-mail and the name are trimmed first
DeclaredRules(r, f, v) ==
    LET email == Trim(v.email)
    IN  IF r = "/login" /\ variant = "A" THEN
            CASE f = "email" ->
                   << Rule(email # << >>, "Email is required"),
                      Rule(EMAIL_REGEX(email),
                           "Please enter a valid email address") >>
              [] f = "password" ->
                   << Rule(v.password # << >>, "Password is required"),
                      Rule(Len(v.password) >= 8,
                           "Password must be at least 8 characters"),
                      Rule(Len(v.password) <= 15,
                           "Password must be at most 15 characters") >>
              [] OTHER -> << >>
        ELSE IF r = "/login" THEN
            CASE f = "email" ->
                   << Rule(email # << >>, "Email is required"),
                      Rule(ZodEmail(email),
                           "Please enter a valid email address"),
                      Rule(Len(email) <= 255,
                           "Email must be less than 255 characters") >>
              [] f = "password" ->
                   << Rule(v.password # << >>, "Password is required"),
                      Rule(Len(v.password) >= 6,
                           "Password must be at least 6 characters"),
                      Rule(Len(v.password) <= 100,
                           "Password must be less than 100 characters") >>
              [] OTHER -> << >>
        ELSE
            CASE f = "fullName" ->
                   LET name == Trim(v.fullName)
                   IN  << Rule(name # << >>, "Full name is required"),
                          Rule(Len(name) >= 2,
                               "Name must be at least 2 characters"),
                          Rule(Len(name) <= 100,
                               "Name must be less than 100 characters"),
                          Rule(name # << >> /\ \A i \in 1..Len(name) :
                                  name[i] \in Letter \cup Whitespace,
                               "Name can only contain letters and spaces") >>
              [] f = "email" ->
                   << Rule(email # << >>, "Email is required"),
                      Rule(ZodEmail(email),
                           "Please enter a valid email address"),
                      Rule(Len(email) <= 255,
                           "Email must be less than 255 characters") >>
              [] f = "password" ->
                   << Rule(v.password # << >>, "Password is required"),
                      Rule(Len(v.password) >= 8,
                           "Password must be at least 8 characters"),
                      Rule(Len(v.password) <= 100,
                           "Password must be less than 100 characters"),
                      Rule(\E i \in 1..Len(v.password) : v.password[i] \in Upper,
                           "Password must contain at least one uppercase letter"),
                      Rule(\E i \in 1..Len(v.password) : v.password[i] \in Lower,
                           "Password must contain at least one lowercase letter"),
                      Rule(\E i \in 1..Len(v.password) : v.password[i] \in Digit,
                           "Password must contain at least one number") >>
              [] f = "confirmPassword" ->
                   << Rule(v.confirmPassword # << >>,
                           "Please confirm your password"),
                      Rule(v.confirmPassword = v.password,
                           "Passwords don't match") >>
              [] OTHER -> << >>

\* the constraints of the sequence that the value does not meet
Violated(rules) == {i \in 1..Len(rules) : ~rules[i][1]}

\* the message of the first violated constraint; none when all are met
FirstViolated(rules) ==
    IF Violated(rules) = {} THEN NoError
    ELSE LET first == CHOOSE i \in Violated(rules) :
                          \A j \in Violated(rules) : i <= j
         IN  rules[first][2]

\* C12: the errors a submit reports have an entry for exactly the fields
\* that violate a constraint, and the entry of a field is the message of the
\* first constraint, in the declared order, that the field violates; when no
\* field violates any the error set is empty.
C12_FirstViolatedPerField ==
    isSubmitted =>
        /\ DOMAIN errors = DOMAIN values
        /\ \A f \in DOMAIN values :
              LET rules == DeclaredRules(route, f, values)
              IN  /\ errors[f] = FirstViolated(rules)
                  /\ (errors[f] = NoError) = (Violated(rules) = {})
        /\ IsValid(errors) =
              (\A f \in DOMAIN values :
                  Violated(DeclaredRules(route, f, values)) = {})

\* Login was submitted with a whitespace-only e-mail, which violates two
\* constraints and is reported as missing, with a password too short that is
\* reported once, and nothing is reported for the checkbox
C12_Witness ==
    /\ route = "/login"
    /\ variant = "B"
    /\ isSubmitted
    /\ values.email = <<" ">>
    /\ Cardinality(Violated(DeclaredRules(route, "email", values))) = 2
    /\ errors.email = "Email is required"
    /\ Len(values.password) = 5
    /\ errors.password = "Password must be at least 6 characters"
    /\ errors.rememberMe = NoError
    /\ started = 0

=============================================================================
